---- MODULE Spec2Model ----
(***************************************************************************)
(* Initiative Card Generator: the PDF layout engine (utils/pdfGenerator.ts) *)
(* and the App handler that calls it (App.tsx).                             *)
(*                                                                          *)
(* Units.  Lengths in millimetres are held in hundredths of a millimetre    *)
(* (297 mm = 29700) and lengths in pixels in hundredths of a pixel          *)
(* (742.5 px = 74250), so that every quantity of the source is an exact     *)
(* integer.  A canvas side (an unsigned long in the DOM) and a font size    *)
(* are whole pixels.                                                        *)
(*                                                                          *)
(* A name is the sequence of the lengths of the words name.split(' ')       *)
(* yields: "" is <<0>>, "  " is <<0, 0, 0>>, "Sir Bob" is <<3, 3>>.          *)
(***************************************************************************)
EXTENDS Integers, Sequences, FiniteSets, TLC

VARIABLES
    cards,          \* App state `cards`: the deck
    snapshot,       \* generatePDF's parameter `cards`: the array the App state
                    \* held when the pass was requested
    cardsPerPage,   \* App state `cardsPerPage` / generatePDF's parameter
    via,            \* who calls generatePDF: the App button or a direct call
    broken,         \* image URLs that loadImage cannot load: files that do
                    \* not decode, and object URLs that have been revoked
    selectedCardId, \* App state; 0 is null
    nextId,         \* the next id generateId() / Date.now() yields, and the
                    \* next object URL URL.createObjectURL yields
    prev,           \* what the previous generation pass did, if there was one
    isGenerating,   \* App state
    alerts,         \* number of alert() notifications shown
    pc,             \* control location of the generation pass
    result,         \* generatePDF's promise: "none", "resolved", "rejected"
    i,              \* generatePDF's loop variable
    pos,            \* pageIndex, positionOnPage, x, y of the card in hand
    halves,         \* the two renderCardHalfToDataUrl calls of the card in hand,
                    \* and the order in which they settled
    page,           \* loop variable of the cut-line loop
    pdf,            \* the jsPDF document: created, pages, cur (1-based), saved
    ops,            \* drawing commands issued to the document, in order
    labels          \* name labels rendered by renderNameLabelToDataUrl, in order

vars == <<cards, snapshot, cardsPerPage, via, broken, selectedCardId, nextId, prev,
          isGenerating, alerts, pc, result, i, pos, halves, page, pdf, ops, labels>>

\* what the generation pass leaves alone, and what the deck editing does
ui == <<selectedCardId, nextId, prev>>
pass == <<snapshot, alerts, pc, result, i, pos, halves, page, pdf, ops, labels>>

(***************************************************************************)
(* Bounds of the model.                                                     *)
(***************************************************************************)
MaxCards == 23
MaxOffset == 2

(***************************************************************************)
(* constants.ts                                                             *)
(***************************************************************************)
A4_WIDTH_MM == 21000
A4_HEIGHT_MM == 29700
BORDER_WIDTH_MM == 100
CARD_WIDTH_MM == A4_WIDTH_MM

LayoutOptions == {4, 5, 20}

\* getCardHeight dividing the sheet by the number of cards in every layout
getCardHeight_perCard(cpp) == A4_HEIGHT_MM \div cpp

getCardHeight(cpp) ==
    IF cpp = 20 THEN (A4_HEIGHT_MM \div 5) \div 2 ELSE A4_HEIGHT_MM \div cpp

getCardWidth(cpp) ==
    IF cpp = 20 THEN CARD_WIDTH_MM \div 2 ELSE CARD_WIDTH_MM

getHalfWidth(cpp) == getCardWidth(cpp) \div 2

getHalfHeight(cpp) == getCardHeight(cpp)

\* the grid of a page
columnsPerPage(cpp) == IF cpp = 20 THEN 2 ELSE 1
rowsPerPage(cpp) == IF cpp = 20 THEN 10 ELSE cpp

(***************************************************************************)
(* Arithmetic helpers of the JavaScript runtime.                            *)
(***************************************************************************)
\* Math.ceil(a / b) for a >= 0, b > 0
MathCeilDiv(a, b) == (a + b - 1) \div b

\* Math.min
MathMin(a, b) == IF a < b THEN a ELSE b

\* conversion of a number of pixels to a canvas side (unsigned long): truncation
ToCanvasSide(px) == px \div 100

(***************************************************************************)
(* types.ts: the values of the enumerations, and the name texts and source  *)
(* images the model draws its cards from.                                   *)
(***************************************************************************)
FontOptions == {"medieval", "elegant", "fantasy"}
BlockSizeOptions == {"small", "medium", "large"}
NameDisplaySides == {"player", "gm", "both"}

\* "", "  ", "Bob", "Sir Lancelot", three words, and names of 4, 5 and 8 long words
Names ==
    { <<0>>, <<0, 0, 0>>, <<3>>, <<3, 8>>, <<12, 12, 12>>,
      <<50, 50, 50, 50>>, <<50, 50, 50, 50, 50>>,
      <<50, 50, 50, 50, 50, 50, 50, 50>> }

NameSettingsSet ==
    [enabled : BOOLEAN, name : Names, font : FontOptions,
     blockSize : BlockSizeOptions, displaySide : NameDisplaySides]

defaultNameSettings ==
    [enabled |-> FALSE, name |-> <<0>>, font |-> "medieval",
     blockSize |-> "medium", displaySide |-> "player"]

CharacterCard(id, url, img, ns) ==
    [id |-> id, imageUrl |-> url, img |-> img, nameSettings |-> ns]

(***************************************************************************)
(* Text: String.prototype.trim, the canvas text measurement, wrapText.      *)
(***************************************************************************)
RECURSIVE SumLen(_)
SumLen(ws) == IF ws = <<>> THEN 0 ELSE Head(ws) + SumLen(Tail(ws))

\* number of characters of the words ws joined by single spaces
Chars(ws) == IF ws = <<>> THEN 0 ELSE SumLen(ws) + Len(ws) - 1

\* the name compared with '' without trimming it
TrimNonEmpty_noTrim(name) == Chars(name) > 0

\* name.trim() is a non-empty string
TrimNonEmpty(name) == \E k \in 1..Len(name) : name[k] > 0

\* advance width of one character, in hundredths of the font size
CharWidth(font) ==
    CASE font = "medieval" -> 55
      [] font = "elegant" -> 50
      [] OTHER -> 60

\* ctx.measureText(line).width at the font getCanvasFont(font, sizePx) selects
measureText(line, font, sizePx) == Chars(line) * sizePx * CharWidth(font)

\* a wrap that starts a new line before every word
RECURSIVE wrapLoop_oneWordPerLine(_, _, _, _, _, _)
wrapLoop_oneWordPerLine(words, lines, currentLine, font, sizePx, maxWidth) ==
    IF words = <<>>
    THEN IF Chars(currentLine) > 0
         THEN Append(lines, currentLine)
         ELSE lines
    ELSE LET word == Head(words)
             truthy == Chars(currentLine) > 0
         IN  IF truthy
             THEN wrapLoop_oneWordPerLine(Tail(words), Append(lines, currentLine),
                                          <<word>>, font, sizePx, maxWidth)
             ELSE wrapLoop_oneWordPerLine(Tail(words), lines, <<word>>,
                                          font, sizePx, maxWidth)

RECURSIVE wrapLoop(_, _, _, _, _, _)
wrapLoop(words, lines, currentLine, font, sizePx, maxWidth) ==
    IF words = <<>>
    THEN IF Chars(currentLine) > 0
         THEN Append(lines, currentLine)
         ELSE lines
    ELSE LET word == Head(words)
             truthy == Chars(currentLine) > 0   \* a non-empty string
             testLine == IF truthy THEN Append(currentLine, word) ELSE <<word>>
         IN  IF measureText(testLine, font, sizePx) > maxWidth /\ truthy
             THEN wrapLoop(Tail(words), Append(lines, currentLine), <<word>>,
                           font, sizePx, maxWidth)
             ELSE wrapLoop(Tail(words), lines, testLine, font, sizePx, maxWidth)

wrapText_oneWordPerLine(text, font, sizePx, maxWidth) ==
    wrapLoop_oneWordPerLine(text, <<>>, <<>>, font, sizePx, maxWidth)

wrapText(text, font, sizePx, maxWidth) ==
    wrapLoop(text, <<>>, <<>>, font, sizePx, maxWidth)

(***************************************************************************)
(* renderNameLabelToDataUrl: the canvas of a label and its font fit.        *)
(***************************************************************************)
getBlockHeightMm(size) ==
    CASE size = "small" -> 700
      [] size = "medium" -> 1000
      [] size = "large" -> 1400
      [] OTHER -> 1000

padding == 1600
minFontSize == 14

\* Math.floor(heightPx * 0.45), in whole pixels
startFontSize(heightPx) == (heightPx * 45) \div 10000

\* lines.length * fontSize * lineHeightMultiplier, in hundredths of a pixel
textHeight(nLines, fontSize) == nLines * fontSize * 115

\* the while loop; st is what the iterations so far left in ctx.font, lines and
\* totalTextHeight
RECURSIVE fitLoop(_, _, _, _, _)
fitLoop(fontSize, st, nameSettings, maxWidth, maxHeight) ==
    IF fontSize >= minFontSize
    THEN LET lines == wrapText(nameSettings.name, nameSettings.font, fontSize, maxWidth)
             totalTextHeight == textHeight(Len(lines), fontSize)
             now == [font |-> fontSize, lines |-> lines,
                     totalTextHeight |-> totalTextHeight]
         IN  IF totalTextHeight <= maxHeight
             THEN [fontSize |-> fontSize] @@ now
             ELSE fitLoop(fontSize - 2, now, nameSettings, maxWidth, maxHeight)
    ELSE [fontSize |-> fontSize] @@ st

renderNameLabelToDataUrl(nameSettings, widthPx, heightPx, rotationDeg) ==
    LET swap == rotationDeg = 90 \/ rotationDeg = -90
        maxWidth == widthPx - padding * 2
        maxHeight == heightPx - padding
        fit == fitLoop(startFontSize(heightPx),
                       [font |-> 10, lines |-> <<>>, totalTextHeight |-> 0],
                       nameSettings, maxWidth, maxHeight)
    IN  [canvasWidth |-> ToCanvasSide(IF swap THEN heightPx ELSE widthPx),
         canvasHeight |-> ToCanvasSide(IF swap THEN widthPx ELSE heightPx),
         widthPx |-> widthPx, heightPx |-> heightPx, rotationDeg |-> rotationDeg,
         fontSize |-> fit.fontSize,          \* the variable after the loop
         font |-> fit.font,                  \* the size ctx.font was last set to
         lines |-> fit.lines,
         totalTextHeight |-> fit.totalTextHeight,
         lineHeight |-> fit.fontSize * 115]

(***************************************************************************)
(* drawCharacterName: zero or one label placed on one half of a card.       *)
(* A drawing command is a record [op, kind, side, page, x, y, w, h]; for a  *)
(* line, <<x, y>> and <<w, h>> are its two end points.                      *)
(***************************************************************************)
\* drawCharacterName without the displaySide test
drawCharacterName_anySide(pdfPage, nameSettings, x, y, halfWidth, cardHeight, isGmSide) ==
    IF ~nameSettings.enabled \/ ~TrimNonEmpty(nameSettings.name) THEN <<>>
    ELSE
    LET inset == BORDER_WIDTH_MM + 50
        nameHeight == getBlockHeightMm(nameSettings.blockSize)
        labelWidthMm == cardHeight - inset * 2
        rotation == IF isGmSide THEN 90 ELSE -90
        labelX == IF isGmSide THEN x + inset
                  ELSE x + halfWidth - inset - nameHeight
    IN  << [label |-> renderNameLabelToDataUrl(nameSettings, labelWidthMm * 10,
                                               nameHeight * 10, rotation),
            cmd |-> [op |-> "addImage", kind |-> "PNG",
                     side |-> IF isGmSide THEN "gm" ELSE "player",
                     page |-> pdfPage, x |-> labelX, y |-> y + inset,
                     w |-> nameHeight, h |-> labelWidthMm]] >>

drawCharacterName(pdfPage, nameSettings, x, y, halfWidth, cardHeight, isGmSide) ==
    IF ~nameSettings.enabled \/ ~TrimNonEmpty(nameSettings.name) THEN <<>>
    ELSE
    LET shouldShow ==
            \/ nameSettings.displaySide = "both"
            \/ (nameSettings.displaySide = "player" /\ ~isGmSide)
            \/ (nameSettings.displaySide = "gm" /\ isGmSide)
        inset == BORDER_WIDTH_MM + 50
        nameHeight == getBlockHeightMm(nameSettings.blockSize)
        pxPerMm == 10
        labelWidthMm == cardHeight - inset * 2
        labelHeightMm == nameHeight
        labelWidthPx == labelWidthMm * pxPerMm
        labelHeightPx == labelHeightMm * pxPerMm
        rotation == IF isGmSide THEN 90 ELSE -90
        labelY == y + inset
        labelX == IF isGmSide THEN x + inset
                  ELSE x + halfWidth - inset - nameHeight
    IN  IF ~shouldShow THEN <<>>
        ELSE << [label |-> renderNameLabelToDataUrl(nameSettings, labelWidthPx,
                                                    labelHeightPx, rotation),
                 cmd |-> [op |-> "addImage", kind |-> "PNG",
                          side |-> IF isGmSide THEN "gm" ELSE "player",
                          page |-> pdfPage, x |-> labelX, y |-> labelY,
                          w |-> nameHeight, h |-> labelWidthMm]] >>

\* CardOptionsMenu's preview of the same decision
showNameOnSide(nameSettings, side) ==
    /\ nameSettings.enabled
    /\ TrimNonEmpty(nameSettings.name)
    /\ (nameSettings.displaySide = side \/ nameSettings.displaySide = "both")

(***************************************************************************)
(* renderCardHalfToDataUrl, after its image has loaded: the canvas, the     *)
(* cover crop and the rotation.  The crop is a rectangle of the source      *)
(* image in units of 1/den of a source pixel.                               *)
(***************************************************************************)
RECURSIVE GCD(_, _)
GCD(a, b) == IF b = 0 THEN a ELSE GCD(b, a % b)

\* the ratio w : h in lowest terms
Ratio(w, h) == << w \div GCD(w, h), h \div GCD(w, h) >>

\* a crop that keeps the whole image in view: the branches of coverCrop swapped
coverCrop_contain(img, widthPx, heightPx) ==
    LET imgW == img[1]
        imgH == img[2]
        tw == Ratio(widthPx, heightPx)[1]
        th == Ratio(widthPx, heightPx)[2]
    IN  IF imgW * tw <= imgH * th
        THEN [den |-> 2 * tw,
              srcX |-> imgW * tw - imgH * th, srcY |-> 0,
              srcWidth |-> 2 * imgH * th, srcHeight |-> 2 * imgH * tw]
        ELSE [den |-> 2 * th,
              srcX |-> 0, srcY |-> imgH * th - imgW * tw,
              srcWidth |-> 2 * imgW * th, srcHeight |-> 2 * imgW * tw]

\* targetAspect = heightPx / widthPx is held as the ratio th : tw; the crop is
\* held in units of 1 / den of a source pixel
coverCrop(img, widthPx, heightPx) ==
    LET imgW == img[1]
        imgH == img[2]
        tw == Ratio(widthPx, heightPx)[1]
        th == Ratio(widthPx, heightPx)[2]
    IN  \* imgAspect > targetAspect, i.e. imgW / imgH > heightPx / widthPx
        IF imgW * tw > imgH * th
        THEN [den |-> 2 * tw,
              srcX |-> imgW * tw - imgH * th, srcY |-> 0,
              srcWidth |-> 2 * imgH * th, srcHeight |-> 2 * imgH * tw]
        ELSE [den |-> 2 * th,
              srcX |-> 0, srcY |-> imgH * th - imgW * tw,
              srcWidth |-> 2 * imgW * th, srcHeight |-> 2 * imgW * tw]

renderCardHalfToDataUrl(img, widthPx, heightPx, flipForGmSide) ==
    [st |-> "done",
     canvasWidth |-> ToCanvasSide(widthPx),
     canvasHeight |-> ToCanvasSide(heightPx),
     widthPx |-> widthPx, heightPx |-> heightPx,
     crop |-> coverCrop(img, widthPx, heightPx),
     rotationDeg |-> IF flipForGmSide THEN 90 ELSE -90,
     \* destination rectangle of drawImage in the rotated frame
     dstWidth |-> heightPx, dstHeight |-> widthPx]

HalfPending == [st |-> "loading"]
HalfFailed == [st |-> "failed"]
HalfIdle == [st |-> "idle"]
NoHalves == [normal |-> HalfIdle, rotated |-> HalfIdle, settled |-> <<>>]
PendingHalves == [normal |-> HalfPending, rotated |-> HalfPending, settled |-> <<>>]

\* a Promise.all that hands back the values in the order the promises settled
PromiseAll_settleOrder(hs) == << hs[hs.settled[1]], hs[hs.settled[2]] >>

\* Promise.all([normal, rotated]): the values in the order of the array passed
PromiseAll(hs) == << hs.normal, hs.rotated >>

(***************************************************************************)
(* The drawing commands of generatePDF's loop body.                         *)
(***************************************************************************)
\* a command drawn with the line dash pattern [] in force (dash = 0: solid);
\* for a line, <<x, y>> is its first end and <<w, h>> its second end
Cmd(op, kind, side, pg, x, y, w, h) ==
    [op |-> op, kind |-> kind, side |-> side, page |-> pg,
     x |-> x, y |-> y, w |-> w, h |-> h, dash |-> 0]

\* Inset for border (scaled for smaller cards)
cardInset(cpp) ==
    IF cpp = 20 THEN (BORDER_WIDTH_MM * 6) \div 10 + 30 ELSE BORDER_WIDTH_MM + 50

\* the constants taken as the whole gap, each half set back by half of it
halfGap_wholeGap(cpp) == IF cpp = 20 THEN 20 ELSE 40

\* Gap between the two halves (for fold line)
halfGap(cpp) == IF cpp = 20 THEN 40 ELSE 80

\* pdf.addImage(rotatedDataUrl, ...): left half (rotated - GM side when folded)
\* (rot: the rotation of the fragment the data URL holds)
leftHalfImage(dataUrl, cpp, pg, x, y) ==
    Cmd("addImage", "JPEG", "gm", pg,
        x + cardInset(cpp), y + cardInset(cpp),
        getHalfWidth(cpp) - cardInset(cpp) - halfGap(cpp),
        getCardHeight(cpp) - cardInset(cpp) * 2)
    @@ [rot |-> dataUrl.rotationDeg]

\* pdf.addImage(normalDataUrl, ...): right half (normal - player side)
rightHalfImage(dataUrl, cpp, pg, x, y) ==
    Cmd("addImage", "JPEG", "player", pg,
        x + getHalfWidth(cpp) + halfGap(cpp), y + cardInset(cpp),
        getHalfWidth(cpp) - cardInset(cpp) - halfGap(cpp),
        getCardHeight(cpp) - cardInset(cpp) * 2)
    @@ [rot |-> dataUrl.rotationDeg]

drawCardBorder(pg, x, y, width, height) ==
    LET borderWidth == BORDER_WIDTH_MM
    IN  << Cmd("roundedRect", "outer", "none", pg,
               x + borderWidth \div 2, y + borderWidth \div 2,
               width - borderWidth, height - borderWidth),
           Cmd("roundedRect", "inner", "none", pg,
               x + borderWidth + 60, y + borderWidth + 60,
               width - (borderWidth + 60) * 2, height - (borderWidth + 60) * 2) >>

FOLD_LINE_DASH_MM == 300

\* drawFoldLine with the line running the whole height of the cell
drawFoldLine_fullHeight(pg, x, y, height) ==
    << [Cmd("line", "fold", "none", pg, x, y, x, y + height)
          EXCEPT !.dash = FOLD_LINE_DASH_MM] >>

\* the line is drawn between setLineDashPattern([3, 3], 0) and the reset to []
drawFoldLine(pg, x, y, height) ==
    << [Cmd("line", "fold", "none", pg,
            x, y + BORDER_WIDTH_MM + 50, x, y + height - BORDER_WIDTH_MM - 50)
          EXCEPT !.dash = FOLD_LINE_DASH_MM] >>

\* the if statement at the end of the loop body and its two calls
cardNames(card, pg, x, y, halfWidth, cardHeight) ==
    IF card.nameSettings.enabled /\ TrimNonEmpty(card.nameSettings.name)
    THEN drawCharacterName(pg, card.nameSettings, x, y, halfWidth, cardHeight, TRUE)
         \o drawCharacterName(pg, card.nameSettings, x + halfWidth, y, halfWidth,
                              cardHeight, FALSE)
    ELSE <<>>

\* cardPosition that leaves out the column offset of the 20 layout
cardPosition_noColumnOffset(idx, cpp) ==
    LET pageIndex == idx \div cpp
        positionOnPage == idx % cpp
        row == positionOnPage \div columnsPerPage(cpp)
    IN  [pageIndex |-> pageIndex, positionOnPage |-> positionOnPage,
         x |-> 0,
         y |-> IF cpp = 20 THEN row * getCardHeight(cpp)
               ELSE positionOnPage * getCardHeight(cpp)]

\* cardPosition that stacks the cards of every layout in one column
cardPosition_oneColumn(idx, cpp) ==
    LET pageIndex == idx \div cpp
        positionOnPage == idx % cpp
    IN  [pageIndex |-> pageIndex, positionOnPage |-> positionOnPage,
         x |-> 0,
         y |-> positionOnPage * getCardHeight(cpp)]

\* cardPosition filling the 2 x 10 grid column by column
cardPosition_columnMajor(idx, cpp) ==
    LET pageIndex == idx \div cpp
        positionOnPage == idx % cpp
        col == positionOnPage \div rowsPerPage(cpp)
        row == positionOnPage % rowsPerPage(cpp)
    IN  [pageIndex |-> pageIndex, positionOnPage |-> positionOnPage,
         x |-> IF cpp = 20 THEN col * getCardWidth(cpp) ELSE 0,
         y |-> IF cpp = 20 THEN row * getCardHeight(cpp)
               ELSE positionOnPage * getCardHeight(cpp)]

\* cardPosition with the position on the page counted from 1
cardPosition_fromOne(idx, cpp) ==
    LET pageIndex == idx \div cpp
        positionOnPage == (idx + 1) % cpp
        col == positionOnPage % columnsPerPage(cpp)
        row == positionOnPage \div columnsPerPage(cpp)
    IN  [pageIndex |-> pageIndex, positionOnPage |-> positionOnPage,
         x |-> IF cpp = 20 THEN col * getCardWidth(cpp) ELSE 0,
         y |-> IF cpp = 20 THEN row * getCardHeight(cpp)
               ELSE positionOnPage * getCardHeight(cpp)]

\* pageIndex, positionOnPage and the cell origin of card index idx (0-based)
cardPosition(idx, cpp) ==
    LET pageIndex == idx \div cpp
        positionOnPage == idx % cpp
        col == positionOnPage % columnsPerPage(cpp)
        row == positionOnPage \div columnsPerPage(cpp)
    IN  [pageIndex |-> pageIndex, positionOnPage |-> positionOnPage,
         x |-> IF cpp = 20 THEN col * getCardWidth(cpp) ELSE 0,
         y |-> IF cpp = 20 THEN row * getCardHeight(cpp)
               ELSE positionOnPage * getCardHeight(cpp)]

(***************************************************************************)
(* drawCutLines for one page.                                               *)
(***************************************************************************)
\* drawCutLines that draws every row boundary of the grid, occupied or not
drawCutLines_everyRow(pg, cardsOnPage, cardHeight, cpp) ==
    IF cpp = 20
    THEN LET cardWidth == getCardWidth(cpp)
         IN  << Cmd("line", "cut", "none", pg, cardWidth, 0, cardWidth,
                    10 * cardHeight) >>
             \o [k \in 1..9 |->
                   Cmd("line", "cut", "none", pg, 0, k * cardHeight,
                       A4_WIDTH_MM, k * cardHeight)]
    ELSE [k \in 1..(cpp - 1) |->
            Cmd("line", "cut", "none", pg, 0, k * cardHeight,
                A4_WIDTH_MM, k * cardHeight)]

\* setLineDashPattern([], 0) first: the lines are solid
drawCutLines(pg, cardsOnPage, cardHeight, cpp) ==
    IF cpp = 20
    THEN LET cardWidth == getCardWidth(cpp)
             rowsOnPage == MathCeilDiv(cardsOnPage, 2)
         IN  << Cmd("line", "cut", "none", pg, cardWidth, 0, cardWidth,
                    rowsOnPage * cardHeight) >>
             \o [k \in 1..(rowsOnPage - 1) |->
                   Cmd("line", "cut", "none", pg, 0, k * cardHeight,
                       A4_WIDTH_MM, k * cardHeight)]
    ELSE [k \in 1..(cardsOnPage - 1) |->
            Cmd("line", "cut", "none", pg, 0, k * cardHeight,
                A4_WIDTH_MM, k * cardHeight)]

(***************************************************************************)
(* The decks the model generates documents from.                            *)
(***************************************************************************)
NS(enabled, name, font, blockSize, displaySide) ==
    [enabled |-> enabled, name |-> name, font |-> font,
     blockSize |-> blockSize, displaySide |-> displaySide]

CardPool ==
    << [img |-> <<400, 300>>, ns |-> defaultNameSettings],
       [img |-> <<300, 400>>, ns |-> NS(TRUE, <<3>>, "medieval", "small", "player")],
       [img |-> <<1050, 594>>, ns |-> NS(TRUE, <<0, 0, 0>>, "elegant", "medium", "both")],
       [img |-> <<400, 300>>, ns |-> NS(TRUE, <<3, 8>>, "elegant", "medium", "gm")],
       [img |-> <<300, 400>>,
        ns |-> NS(TRUE, <<50, 50, 50, 50>>, "fantasy", "small", "both")],
       [img |-> <<1050, 594>>, ns |-> NS(FALSE, <<3>>, "medieval", "large", "both")],
       [img |-> <<400, 300>>, ns |-> NS(TRUE, <<12, 12, 12>>, "medieval", "large", "both")] >>

\* a deck of n uploaded cards (each its own object URL), the pool taken in turn
PoolDeck(n, off) ==
    [k \in 1..n |->
        LET kind == CardPool[((k - 1 + off) % Len(CardPool)) + 1]
        IN  CharacterCard(k, k, kind.img, kind.ns)]

\* the decks, each with the set of its image URLs that cannot be loaded: decks of
\* every length from the pool, a full deck with any one image broken, and
\* one-card decks of every name setting
DeckInputs ==
    { [cards |-> PoolDeck(n, off), broken |-> {}] :
        n \in 0..MaxCards, off \in 0..MaxOffset }
    \cup { [cards |-> PoolDeck(MaxCards, 0), broken |-> {u}] : u \in 1..MaxCards }
    \cup { [cards |-> <<CharacterCard(1, 1, <<400, 300>>, ns)>>, broken |-> {}] :
             ns \in NameSettingsSet }

NoPosition == [pageIndex |-> 0, positionOnPage |-> 0, x |-> 0, y |-> 0]
NoDocument == [created |-> FALSE, pages |-> 0, cur |-> 0, saved |-> FALSE]
NoPass == [passes |-> 0, result |-> "none", pages |-> 0, ops |-> <<>>,
           labels |-> <<>>, settled |-> <<>>]

Init ==
    /\ \E d \in DeckInputs :
          /\ cards = d.cards
          /\ broken = d.broken
    /\ cardsPerPage \in LayoutOptions
    /\ via \in {"App", "export"}
    /\ via = "App" => cardsPerPage \in {4, 5}     \* the App offers two buttons
    /\ selectedCardId = 0
    /\ nextId = Len(cards) + 1
    /\ prev = NoPass
    /\ snapshot = <<>>
    /\ isGenerating = FALSE
    /\ alerts = 0
    /\ pc = "idle"
    /\ result = "none"
    /\ i = 0
    /\ pos = NoPosition
    /\ halves = NoHalves
    /\ page = 0
    /\ pdf = NoDocument
    /\ ops = <<>>
    /\ labels = <<>>

(***************************************************************************)
(* App.handleGeneratePDF, up to its call of generatePDF.                    *)
(***************************************************************************)
handleGeneratePDF ==
    /\ pc = "idle"
    /\ via = "App"
    /\ IF Len(cards) = 0
       THEN pc' = "returned" /\ UNCHANGED isGenerating
       ELSE pc' = "called" /\ isGenerating' = TRUE
    /\ UNCHANGED ui
    /\ snapshot' = cards                  \* the array the callback closed over
    /\ UNCHANGED <<cards, cardsPerPage, via, broken, alerts, result, i, pos,
                   halves, page, pdf, ops, labels>>

(***************************************************************************)
(* generatePDF, from its call to the start of the loop.                     *)
(***************************************************************************)
\* new jsPDF(...): a document of one page, which is the current page
newDocument == [created |-> TRUE, pages |-> 1, cur |-> 1, saved |-> FALSE]

\* the argument of the call: the array handleGeneratePDF closed over, or the
\* deck a direct caller passes
passedCards == IF pc = "called" THEN snapshot ELSE cards

\* generatePDF without its early return on an empty deck
generatePDF_noEmptyGuard ==
    /\ pc = "called" \/ (pc = "idle" /\ via = "export")
    /\ pc' = "loop"
    /\ pdf' = newDocument
    /\ i' = 0
    /\ UNCHANGED ui
    /\ snapshot' = passedCards
    /\ UNCHANGED <<cards, cardsPerPage, via, broken, isGenerating, alerts, result,
                   pos, halves, page, ops, labels>>

generatePDF ==
    /\ pc = "called" \/ (pc = "idle" /\ via = "export")
    /\ IF Len(passedCards) = 0
       THEN /\ pc' = "end"
            /\ result' = "resolved"
            /\ UNCHANGED pdf
       ELSE /\ pc' = "loop"
            /\ pdf' = newDocument
            /\ UNCHANGED result
    /\ i' = 0
    /\ UNCHANGED ui
    /\ snapshot' = passedCards
    /\ UNCHANGED <<cards, cardsPerPage, via, broken, isGenerating, alerts, pos,
                   halves, page, ops, labels>>

\* an addPage that appends a page and leaves the current page where it was
addPage_keepCurrent(doc) == [doc EXCEPT !.pages = doc.pages + 1]

\* pdf.addPage(): appends a page and makes it the current one
addPage(doc) == [doc EXCEPT !.pages = doc.pages + 1, !.cur = doc.pages + 1]

\* the loop head and the body up to `await Promise.all([...])`
forCard ==
    /\ pc = "loop"
    /\ IF i < Len(snapshot)
       THEN LET p == cardPosition(i, cardsPerPage)
            IN  /\ pos' = p
                /\ pdf' = IF p.positionOnPage = 0 /\ p.pageIndex > 0
                          THEN addPage(pdf) ELSE pdf
                /\ halves' = PendingHalves
                /\ pc' = "await"
                /\ UNCHANGED page
       ELSE /\ pc' = "cut"
            /\ page' = 0
            /\ UNCHANGED <<pos, pdf, halves>>
    /\ UNCHANGED ui
    /\ UNCHANGED snapshot
    /\ UNCHANGED <<cards, cardsPerPage, via, broken, isGenerating, alerts, result,
                   i, ops, labels>>

pxPerMm == 10
halfWidthPx(cpp) == getHalfWidth(cpp) * pxPerMm
halfHeightPx(cpp) == getHalfHeight(cpp) * pxPerMm

\* img.onload of one of the two renders: the render runs to its end
loadImage_onload(h) ==
    /\ halves[h].st = "loading"
    /\ snapshot[i + 1].imageUrl \notin broken
    /\ halves' = [halves EXCEPT ![h] =
                    renderCardHalfToDataUrl(snapshot[i + 1].img,
                                            halfWidthPx(cardsPerPage),
                                            halfHeightPx(cardsPerPage),
                                            h = "rotated"),
                         !.settled = Append(@, h)]
    /\ UNCHANGED ui
    /\ UNCHANGED snapshot
    /\ UNCHANGED <<cards, cardsPerPage, via, broken, isGenerating, alerts, pc,
                   result, i, pos, page, pdf, ops, labels>>

\* img.onerror that lets the render go on as if the image had loaded
loadImage_onerror_swallowed(h) ==
    /\ halves[h].st = "loading"
    /\ snapshot[i + 1].imageUrl \in broken
    /\ halves' = [halves EXCEPT ![h] =
                    renderCardHalfToDataUrl(snapshot[i + 1].img,
                                            halfWidthPx(cardsPerPage),
                                            halfHeightPx(cardsPerPage),
                                            h = "rotated"),
                         !.settled = Append(@, h)]
    /\ UNCHANGED ui
    /\ UNCHANGED snapshot
    /\ UNCHANGED <<cards, cardsPerPage, via, broken, isGenerating, alerts, pc,
                   result, i, pos, page, pdf, ops, labels>>

\* img.onerror of one of the two renders: Promise.all rejects, and with it
\* generatePDF, at the first failure
loadImage_onerror(h) ==
    /\ halves[h].st = "loading"
    /\ snapshot[i + 1].imageUrl \in broken
    /\ halves' = [halves EXCEPT ![h] = HalfFailed, !.settled = Append(@, h)]
    /\ IF pc = "await"
       THEN pc' = "end" /\ result' = "rejected"
       ELSE UNCHANGED <<pc, result>>
    /\ UNCHANGED ui
    /\ UNCHANGED snapshot
    /\ UNCHANGED <<cards, cardsPerPage, via, broken, isGenerating, alerts, i, pos,
                   page, pdf, ops, labels>>

\* the rest of the loop body, once both renders have resolved
WithCard(cmds, idx) == [k \in 1..Len(cmds) |-> cmds[k] @@ [card |-> idx]]

placeCard ==
    /\ pc = "await"
    /\ halves.normal.st = "done"
    /\ halves.rotated.st = "done"
    /\ LET card == snapshot[i + 1]
           cardHeight == getCardHeight(cardsPerPage)
           cardWidth == getCardWidth(cardsPerPage)
           halfWidth == getHalfWidth(cardsPerPage)
           names == cardNames(card, pdf.cur, pos.x, pos.y, halfWidth, cardHeight)
           normalDataUrl == PromiseAll(halves)[1]
           rotatedDataUrl == PromiseAll(halves)[2]
       IN  /\ ops' = ops \o WithCard(
                       << leftHalfImage(rotatedDataUrl, cardsPerPage, pdf.cur,
                                        pos.x, pos.y),
                          rightHalfImage(normalDataUrl, cardsPerPage, pdf.cur,
                                         pos.x, pos.y) >>
                       \o drawCardBorder(pdf.cur, pos.x, pos.y, cardWidth, cardHeight)
                       \o drawFoldLine(pdf.cur, pos.x + halfWidth, pos.y, cardHeight)
                       \o [k \in 1..Len(names) |-> names[k].cmd], i)
           /\ labels' = labels \o
                  [k \in 1..Len(names) |->
                     names[k].label @@ [card |-> i, side |-> names[k].cmd.side]]
    /\ i' = i + 1
    /\ pc' = "loop"
    /\ UNCHANGED ui
    /\ UNCHANGED snapshot
    /\ UNCHANGED <<cards, cardsPerPage, via, broken, isGenerating, alerts, result,
                   pos, halves, page, pdf>>

\* one iteration of the cut-line loop: pdf.setPage(page + 1), drawCutLines
totalPages == MathCeilDiv(Len(snapshot), cardsPerPage)

drawCutLinesOnPage ==
    /\ pc = "cut"
    /\ page < totalPages
    /\ LET cardsOnThisPage == MathMin(cardsPerPage, Len(snapshot) - page * cardsPerPage)
       IN  /\ pdf' = [pdf EXCEPT !.cur = page + 1]
           /\ ops' = ops \o WithCard(
                        drawCutLines(page + 1, cardsOnThisPage,
                                     getCardHeight(cardsPerPage), cardsPerPage), -1)
    /\ page' = page + 1
    /\ UNCHANGED ui
    /\ UNCHANGED snapshot
    /\ UNCHANGED <<cards, cardsPerPage, via, broken, isGenerating, alerts, pc,
                   result, i, pos, halves, labels>>

\* pdf.save(...), after which generatePDF resolves
save ==
    /\ pc = "cut"
    /\ ~(page < totalPages)
    /\ pdf' = [pdf EXCEPT !.saved = TRUE]
    /\ pc' = "end"
    /\ result' = "resolved"
    /\ UNCHANGED ui
    /\ UNCHANGED snapshot
    /\ UNCHANGED <<cards, cardsPerPage, via, broken, isGenerating, alerts, i, pos,
                   halves, page, ops, labels>>

(***************************************************************************)
(* App.handleGeneratePDF, after generatePDF has settled: catch and finally. *)
(***************************************************************************)
\* handleGeneratePDF with the reset of isGenerating at the end of the try block
handleGeneratePDF_settled_noFinally ==
    /\ pc = "end"
    /\ via = "App"
    /\ alerts' = IF result = "rejected" THEN alerts + 1 ELSE alerts
    /\ isGenerating' = (result = "rejected")
    /\ pc' = "returned"
    /\ UNCHANGED ui
    /\ UNCHANGED snapshot
    /\ UNCHANGED <<cards, cardsPerPage, via, broken, result, i, pos, halves, page,
                   pdf, ops, labels>>

handleGeneratePDF_settled ==
    /\ pc = "end"
    /\ via = "App"
    /\ alerts' = IF result = "rejected" THEN alerts + 1 ELSE alerts
    /\ isGenerating' = FALSE
    /\ pc' = "returned"
    /\ UNCHANGED ui
    /\ UNCHANGED snapshot
    /\ UNCHANGED <<cards, cardsPerPage, via, broken, result, i, pos, halves, page,
                   pdf, ops, labels>>

\* the page count the App displays
pageCount == MathCeilDiv(Len(cards), cardsPerPage)

Next ==
    \/ handleGeneratePDF
    \/ generatePDF
    \/ forCard
    \/ \E h \in {"normal", "rotated"} : loadImage_onload(h)
    \/ \E h \in {"normal", "rotated"} : loadImage_onerror(h)
    \/ placeCard
    \/ drawCutLinesOnPage
    \/ save
    \/ handleGeneratePDF_settled

Spec == Init /\ [][Next]_vars

(***************************************************************************)
(* Generation passes over one-card decks whose image has any size up to     *)
(* MaxSide x MaxSide, loadable or not.                                      *)
(***************************************************************************)
MaxSide == 6

CropDecks ==
    { [cards |-> <<CharacterCard(1, 1, <<w, h>>, defaultNameSettings)>>,
       broken |-> b] :
        w \in 1..MaxSide, h \in 1..MaxSide, b \in { {}, {1} } }

InitCrop ==
    /\ \E d \in CropDecks :
          /\ cards = d.cards
          /\ broken = d.broken
    /\ cardsPerPage \in LayoutOptions
    /\ via \in {"App", "export"}
    /\ via = "App" => cardsPerPage \in {4, 5}
    /\ selectedCardId = 0
    /\ nextId = Len(cards) + 1
    /\ prev = NoPass
    /\ snapshot = <<>>
    /\ isGenerating = FALSE
    /\ alerts = 0
    /\ pc = "idle"
    /\ result = "none"
    /\ i = 0
    /\ pos = NoPosition
    /\ halves = NoHalves
    /\ page = 0
    /\ pdf = NoDocument
    /\ ops = <<>>
    /\ labels = <<>>

SpecCrop == InitCrop /\ [][Next]_vars

(***************************************************************************)
(* Generation passes over one-card decks whose name is any sequence of up   *)
(* to MaxWords words, empty words (from leading, trailing and double        *)
(* spaces) included, shown on both sides.                                   *)
(***************************************************************************)
MaxWords == 3

WordLengths == {0, 3, 12}

WrapNames == UNION { [1..n -> WordLengths] : n \in 1..MaxWords }

WrapDecks ==
    { [cards |-> <<CharacterCard(1, 1, <<400, 300>>,
                                 NS(TRUE, name, font, blockSize, "both"))>>,
       broken |-> {}] :
        name \in WrapNames, font \in FontOptions, blockSize \in BlockSizeOptions }
    \cup { [cards |-> <<CharacterCard(1, 1, <<400, 300>>, defaultNameSettings)>>,
            broken |-> {1}] }

InitWrap ==
    /\ \E d \in WrapDecks :
          /\ cards = d.cards
          /\ broken = d.broken
    /\ cardsPerPage \in LayoutOptions
    /\ via \in {"App", "export"}
    /\ via = "App" => cardsPerPage \in {4, 5}
    /\ selectedCardId = 0
    /\ nextId = Len(cards) + 1
    /\ prev = NoPass
    /\ snapshot = <<>>
    /\ isGenerating = FALSE
    /\ alerts = 0
    /\ pc = "idle"
    /\ result = "none"
    /\ i = 0
    /\ pos = NoPosition
    /\ halves = NoHalves
    /\ page = 0
    /\ pdf = NoDocument
    /\ ops = <<>>
    /\ labels = <<>>

SpecWrap == InitWrap /\ [][Next]_vars

(***************************************************************************)
(* A second generation request with the same deck and layout: the Generate  *)
(* button pressed again once it is enabled again, or generatePDF called     *)
(* again once its promise has settled.  What the first pass did is kept in  *)
(* prev; the second pass starts from fresh locals and a fresh document.     *)
(***************************************************************************)
nextPass ==
    /\ prev.passes = 0
    /\ \/ via = "App" /\ pc = "returned" /\ ~isGenerating
       \/ via = "export" /\ pc = "end"
    /\ prev' = [passes |-> 1, result |-> result, pages |-> pdf.pages, ops |-> ops,
                labels |-> labels, settled |-> halves.settled]
    /\ snapshot' = <<>>
    /\ pc' = "idle"
    /\ result' = "none"
    /\ i' = 0
    /\ pos' = NoPosition
    /\ halves' = NoHalves
    /\ page' = 0
    /\ pdf' = NoDocument
    /\ ops' = <<>>
    /\ labels' = <<>>
    /\ UNCHANGED <<cards, cardsPerPage, via, broken, selectedCardId, nextId,
                   isGenerating, alerts>>

NextTwice == Next \/ nextPass

SpecTwice == Init /\ [][NextTwice]_vars

(***************************************************************************)
(* The App's deck editing (App.tsx, Card.tsx, CardOptionsMenu.tsx), from    *)
(* the empty deck the App starts with.                                      *)
(***************************************************************************)
MaxIds == 4

InitApp ==
    /\ cards = <<>>
    /\ cardsPerPage = 5
    /\ via = "App"
    /\ broken = {}
    /\ selectedCardId = 0
    /\ nextId = 1
    /\ prev = NoPass
    /\ snapshot = <<>>
    /\ isGenerating = FALSE
    /\ alerts = 0
    /\ pc = "idle"
    /\ result = "none"
    /\ i = 0
    /\ pos = NoPosition
    /\ halves = NoHalves
    /\ page = 0
    /\ pdf = NoDocument
    /\ ops = <<>>
    /\ labels = <<>>

\* prev.findIndex((card) => card.id === id), 1-based; 0 for -1
findIndex(deck, id) ==
    IF \E k \in 1..Len(deck) : deck[k].id = id
    THEN CHOOSE k \in 1..Len(deck) :
            deck[k].id = id /\ \A j \in 1..(k - 1) : deck[j].id # id
    ELSE 0

\* cards.find((c) => c.id === selectedCardId): the options menu is rendered
\* for it when there is one
hasSelectedCard == selectedCardId # 0 /\ findIndex(cards, selectedCardId) # 0
selectedCard == cards[findIndex(cards, selectedCardId)]

\* ImageUpload.processFiles and App.handleImagesUploaded: n accepted files
handleImagesUploaded ==
    \E n \in 1..2 :
        /\ nextId + n - 1 <= MaxIds
        /\ cards' = cards \o
              [k \in 1..n |-> CharacterCard(nextId + k - 1, nextId + k - 1,
                                            <<400, 300>>, defaultNameSettings)]
        /\ nextId' = nextId + n
        /\ UNCHANGED <<cardsPerPage, via, broken, selectedCardId, prev,
                       isGenerating>>
        /\ UNCHANGED pass

\* a revokeObjectURL that is never called
revokeObjectURL_nothing(urls, url) == urls

\* URL.revokeObjectURL(url), on the set of URLs that cannot be loaded
revokeObjectURL(urls, url) == urls \cup {url}

\* cards.forEach((card) => URL.revokeObjectURL(card.imageUrl))
RECURSIVE forEachRevoke(_, _)
forEachRevoke(urls, deck) ==
    IF deck = <<>> THEN urls
    ELSE forEachRevoke(revokeObjectURL(urls, Head(deck).imageUrl), Tail(deck))

\* the two state updates of App.handleRemoveCard
removeCard(deck, id) == SelectSeq(deck, LAMBDA card : card.id # id)
deselect(sel, id) == IF sel = id THEN 0 ELSE sel

\* Card.handleRemove: the remove button on a card of the grid
Card_handleRemove ==
    \E k \in 1..Len(cards) :
        /\ broken' = revokeObjectURL(broken, cards[k].imageUrl)
        /\ cards' = removeCard(cards, cards[k].id)
        /\ selectedCardId' = deselect(selectedCardId, cards[k].id)
        /\ UNCHANGED <<cardsPerPage, via, nextId, prev, isGenerating>>
        /\ UNCHANGED pass

\* CardOptionsMenu.handleRemove: revoke, onRemove(card.id), onClose()
CardOptionsMenu_handleRemove ==
    /\ hasSelectedCard
    /\ broken' = revokeObjectURL(broken, selectedCard.imageUrl)
    /\ cards' = removeCard(cards, selectedCard.id)
    /\ selectedCardId' = 0
    /\ UNCHANGED <<cardsPerPage, via, nextId, prev, isGenerating>>
    /\ UNCHANGED pass

\* App.handleClearAll; its button is rendered for a non-empty deck and is
\* disabled while isGenerating
handleClearAll ==
    /\ Len(cards) > 0
    /\ ~isGenerating
    /\ broken' = forEachRevoke(broken, cards)
    /\ cards' = <<>>
    /\ UNCHANGED <<cardsPerPage, via, selectedCardId, nextId, prev, isGenerating>>
    /\ UNCHANGED pass

\* App.handleSelectCard: a click on a card of the grid
handleSelectCard ==
    \E k \in 1..Len(cards) :
        /\ selectedCardId' = IF selectedCardId = cards[k].id THEN 0 ELSE cards[k].id
        /\ UNCHANGED <<cards, cardsPerPage, via, broken, nextId, prev, isGenerating>>
        /\ UNCHANGED pass

\* App.handleCloseOptions, from the options menu
handleCloseOptions ==
    /\ hasSelectedCard
    /\ selectedCardId' = 0
    /\ UNCHANGED <<cards, cardsPerPage, via, broken, nextId, prev, isGenerating>>
    /\ UNCHANGED pass

\* App.handleDuplicateCard, from the options menu: the copy takes a new id and
\* the original's imageUrl, and goes right after the original
handleDuplicateCard ==
    /\ hasSelectedCard
    /\ nextId <= MaxIds
    /\ LET index == findIndex(cards, selectedCardId)
           duplicatedCard == [cards[index] EXCEPT !.id = nextId]
       IN  cards' = SubSeq(cards, 1, index) \o <<duplicatedCard>>
                    \o SubSeq(cards, index + 1, Len(cards))
    /\ nextId' = nextId + 1
    /\ UNCHANGED <<cardsPerPage, via, broken, selectedCardId, prev, isGenerating>>
    /\ UNCHANGED pass

\* a move up that takes the card to the front of the deck
moveCardUp_toFront(deck, id) ==
    LET index == findIndex(deck, id)
    IN  IF index <= 1 THEN deck
        ELSE <<deck[index]>> \o SubSeq(deck, 1, index - 1)
             \o SubSeq(deck, index + 1, Len(deck))

\* the updater of App.handleMoveCardUp (index is 1-based here, 0 for -1)
moveCardUp(deck, id) ==
    LET index == findIndex(deck, id)
    IN  IF index <= 1 THEN deck
        ELSE [deck EXCEPT ![index - 1] = deck[index],
                          ![index] = deck[index - 1]]

\* the updater of App.handleMoveCardDown
moveCardDown(deck, id) ==
    LET index == findIndex(deck, id)
    IN  IF index = 0 \/ index >= Len(deck) THEN deck
        ELSE [deck EXCEPT ![index] = deck[index + 1],
                          ![index + 1] = deck[index]]

\* App.handleMoveCardUp, from the options menu
handleMoveCardUp ==
    /\ hasSelectedCard
    /\ cards' = moveCardUp(cards, selectedCardId)
    /\ UNCHANGED <<cardsPerPage, via, broken, selectedCardId, nextId, prev,
                   isGenerating>>
    /\ UNCHANGED pass

\* App.handleMoveCardDown, from the options menu
handleMoveCardDown ==
    /\ hasSelectedCard
    /\ cards' = moveCardDown(cards, selectedCardId)
    /\ UNCHANGED <<cardsPerPage, via, broken, selectedCardId, nextId, prev,
                   isGenerating>>
    /\ UNCHANGED pass

\* App.handleUpdateNameSettings, from the options menu: the selected card gets
\* the settings the menu built; at most MaxNamed cards are given settings other
\* than the default ones
MaxNamed == 1

MenuSettings ==
    { defaultNameSettings, NS(TRUE, <<3>>, "medieval", "medium", "both") }

handleUpdateNameSettings ==
    /\ hasSelectedCard
    /\ \E settings \in MenuSettings :
          /\ settings # selectedCard.nameSettings
          /\ \/ settings = defaultNameSettings
             \/ Cardinality({ k \in 1..Len(cards) :
                     cards[k].nameSettings # defaultNameSettings }) < MaxNamed
          /\ cards' = [k \in 1..Len(cards) |->
                          IF cards[k].id = selectedCardId
                          THEN [cards[k] EXCEPT !.nameSettings = settings]
                          ELSE cards[k]]
    /\ UNCHANGED <<cardsPerPage, via, broken, selectedCardId, nextId, prev,
                   isGenerating>>
    /\ UNCHANGED pass

\* the two layout buttons
setCardsPerPage ==
    /\ cardsPerPage' \in {4, 5}
    /\ cardsPerPage' # cardsPerPage
    /\ UNCHANGED <<cards, via, broken, selectedCardId, nextId, prev, isGenerating>>
    /\ UNCHANGED pass

NextApp ==
    \/ handleImagesUploaded
    \/ Card_handleRemove
    \/ CardOptionsMenu_handleRemove
    \/ handleClearAll
    \/ handleSelectCard
    \/ handleCloseOptions
    \/ handleDuplicateCard
    \/ handleMoveCardUp
    \/ handleMoveCardDown
    \/ handleUpdateNameSettings
    \/ setCardsPerPage

SpecApp == InitApp /\ [][NextApp]_vars

(***************************************************************************)
(* A generation pass requested through the App, with the user going on to   *)
(* click in the App while it runs: every await of generatePDF lets the      *)
(* event handlers of the page run.  The deck holds up to MaxLive uploaded   *)
(* cards, none of them broken.                                              *)
(***************************************************************************)
MaxLive == 3

InitLive ==
    /\ \E n \in 1..MaxLive : cards = PoolDeck(n, 0)
    /\ broken = {}
    /\ cardsPerPage \in {4, 5}
    /\ via = "App"
    /\ selectedCardId = 0
    /\ nextId = Len(cards) + 1
    /\ prev = NoPass
    /\ snapshot = <<>>
    /\ isGenerating = FALSE
    /\ alerts = 0
    /\ pc = "idle"
    /\ result = "none"
    /\ i = 0
    /\ pos = NoPosition
    /\ halves = NoHalves
    /\ page = 0
    /\ pdf = NoDocument
    /\ ops = <<>>
    /\ labels = <<>>

\* the event loop can run a click handler: no pass is running, or the pass
\* waits at `await Promise.all` for an image to load (from its call to that
\* await, and from the settling of the last render to the next await or to
\* the end, a pass runs without yielding)
userCanAct ==
    \/ pc \in {"idle", "returned"}
    \/ pc = "await" /\ \E h \in {"normal", "rotated"} : halves[h].st = "loading"

NextLive ==
    \/ Next
    \/ userCanAct /\ handleSelectCard
    \/ userCanAct /\ Card_handleRemove
    \/ userCanAct /\ CardOptionsMenu_handleRemove
    \/ userCanAct /\ handleClearAll

SpecLive == InitLive /\ [][NextLive]_vars

(***************************************************************************)
(* Properties.                                                              *)
(***************************************************************************)
Finished == pc \in {"end", "returned"}
Resolved == Finished /\ result = "resolved"

\* the least k with k * l >= n
CeilRef(n, l) == CHOOSE k \in 0..n : k * l >= n /\ \A j \in 0..n : j * l >= n => k <= j

\* the card placed last (pc = "loop" right after placeCard) and its commands
JustPlaced == pc = "loop" /\ i > 0
LastCard == cards[i]
LastCardOps == SelectSeq(ops, LAMBDA c : c.card = i - 1)
OfKind(cmds, kind) == SelectSeq(cmds, LAMBDA c : c.kind = kind)

\* C1: for every layout L in {4, 5, 20} and deck length N, a pass that resolves
\* has produced exactly ceil(N / L) pages, zero pages (no document) iff N = 0,
\* and the App's pageCount is the same number.
C1_PageCount ==
    Resolved =>
        /\ pdf.pages = CeilRef(Len(cards), cardsPerPage)
        /\ (pdf.pages = 0 <=> Len(cards) = 0)
        /\ (pdf.created <=> Len(cards) > 0)
        /\ pageCount = pdf.pages

C1_Witness ==
    /\ Resolved
    /\ pdf.pages = 3
    /\ Len(cards) % cardsPerPage # 0

\* the grid cell <<column, row>> of a card, read off its outer border
CellOf(c) ==
    << (c.x - BORDER_WIDTH_MM \div 2) \div getCardWidth(cardsPerPage),
       (c.y - BORDER_WIDTH_MM \div 2) \div getCardHeight(cardsPerPage) >>

CellsOnPage(pg) ==
    { CellOf(ops[n]) : n \in { m \in 1..Len(ops) :
                                 ops[m].kind = "outer" /\ ops[m].page = pg } }

CardsOnPage(pg) ==
    Cardinality({ m \in 1..Len(ops) : ops[m].kind = "outer" /\ ops[m].page = pg })

Deck23 == Len(cards) = 23 /\ cardsPerPage = 20 /\ Resolved

\* C2 as stated: 23 cards in the 20 layout give 2 pages of 20 and 3 cards, and
\* the 3 cards of the second page are in column 0, rows 0, 1 and 2.
C2_Original ==
    Deck23 =>
        /\ pdf.pages = 2
        /\ CardsOnPage(1) = 20
        /\ CardsOnPage(2) = 3
        /\ CellsOnPage(2) = { <<0, 0>>, <<0, 1>>, <<0, 2>> }

\* C2 as amended: 23 cards in the 20 layout give 2 pages of 20 and 3 cards, and
\* the 3 cards of the second page fill the grid row by row: (column 0, row 0),
\* (column 1, row 0), (column 0, row 1).
C2_RowMajor ==
    Deck23 =>
        /\ pdf.pages = 2
        /\ CardsOnPage(1) = 20
        /\ CardsOnPage(2) = 3
        /\ CellsOnPage(2) = { <<0, 0>>, <<1, 0>>, <<0, 1>> }

C2_Witness == Deck23 /\ pdf.saved /\ Len(ops) > 23 * 5

\* the sizes fontSize takes: floor(heightPx * 0.45), then down by 2 while >= 14
FontSizes(heightPx) ==
    { sz \in 14..((heightPx * 45) \div 10000) : (((heightPx * 45) \div 10000) - sz) % 2 = 0 }

FitsAt(ns, widthPx, heightPx, sz) ==
    Len(wrapText(ns.name, ns.font, sz, widthPx - 3200)) * sz * 115 <= heightPx - 1600

\* C3 as stated: the size a label's text is drawn with (its glyphs and its line
\* spacing) is in [14, floor(heightPx * 0.45)], is reached from the start by
\* steps of 2, and is the largest such size at which the wrapped text fits, or
\* 14 if none fits.
C3_FontFit ==
    \A n \in 1..Len(labels) :
        LET l == labels[n]
            ns == cards[l.card + 1].nameSettings
            start == (l.heightPx * 45) \div 10000
            fitting == { sz \in FontSizes(l.heightPx) :
                           FitsAt(ns, l.widthPx, l.heightPx, sz) }
        IN  /\ l.font = l.fontSize
            /\ l.fontSize \in 14..start
            /\ (start - l.fontSize) % 2 = 0
            /\ IF fitting # {}
               THEN l.fontSize \in fitting /\ \A sz \in fitting : sz <= l.fontSize
               ELSE l.fontSize = 14

PlacedCount == Cardinality({ n \in 1..Len(ops) : ops[n].kind = "outer" })
CutPages == { ops[n].page : n \in { m \in 1..Len(ops) : ops[m].kind = "cut" } }
SomeImageBroken == \E k \in 1..Len(cards) : cards[k].imageUrl \in broken

\* C4: if the image of a card fails to load, generatePDF rejects, no later card
\* is processed and the document is never saved; a document is saved only after
\* every card has been placed and the cut-line loop has visited every page.
C4_NoPartialDocument ==
    /\ result = "rejected" =>
          /\ ~pdf.saved
          /\ cards[i + 1].imageUrl \in broken
          /\ PlacedCount = i
          /\ \A n \in 1..Len(ops) : ops[n].card < i /\ ops[n].kind # "cut"
          /\ page = 0
    /\ (Finished /\ SomeImageBroken) => result = "rejected"
    /\ pdf.saved =>
          /\ result = "resolved"
          /\ ~SomeImageBroken
          /\ i = Len(cards)
          /\ PlacedCount = Len(cards)
          /\ page = pdf.pages
          /\ \A pg \in 1..pdf.pages :
                CardsOnPage(pg) > (IF cardsPerPage = 20 THEN 0 ELSE 1) => pg \in CutPages

C4_Witness ==
    /\ result = "rejected"
    /\ i > 0
    /\ i + 1 < Len(cards)
    /\ halves.normal.st = "failed"
    /\ halves.rotated.st = "failed"
    /\ pc = "returned"

\* a label command lies on the left (GM) or on the right (player) half of the cell
OnLeftHalf(c) ==
    pos.x <= c.x /\ c.x + c.w <= pos.x + getHalfWidth(cardsPerPage)
OnRightHalf(c) ==
    pos.x + getHalfWidth(cardsPerPage) <= c.x
    /\ c.x + c.w <= pos.x + getCardWidth(cardsPerPage)

LastLabels == OfKind(LastCardOps, "PNG")
LeftLabels == SelectSeq(LastLabels, OnLeftHalf)
RightLabels == SelectSeq(LastLabels, OnRightHalf)
NonBlank(name) == \E w \in 1..Len(name) : name[w] # 0

\* C5: for a card whose name is enabled and non-blank, displaySide 'player' puts
\* no label on the GM (left) half, 'gm' none on the player (right) half, 'both'
\* exactly one on each; every label is on one of the halves, and the halves
\* that get a label are the ones the options menu previews.
C5_DisplaySide ==
    (JustPlaced /\ LastCard.nameSettings.enabled /\ NonBlank(LastCard.nameSettings.name)) =>
        LET ns == LastCard.nameSettings
        IN  /\ Len(LeftLabels) + Len(RightLabels) = Len(LastLabels)
            /\ ns.displaySide = "player" => Len(LeftLabels) = 0 /\ Len(RightLabels) = 1
            /\ ns.displaySide = "gm" => Len(RightLabels) = 0 /\ Len(LeftLabels) = 1
            /\ ns.displaySide = "both" => Len(LeftLabels) = 1 /\ Len(RightLabels) = 1
            /\ (Len(LeftLabels) > 0 <=> showNameOnSide(ns, "gm"))
            /\ (Len(RightLabels) > 0 <=> showNameOnSide(ns, "player"))
            /\ \A n \in 1..Len(LeftLabels) : LeftLabels[n].side = "gm"
            /\ \A n \in 1..Len(RightLabels) : RightLabels[n].side = "player"

C5_Witness ==
    /\ Resolved
    /\ \E a, b, c \in 1..Len(cards) :
          /\ cards[a].nameSettings.displaySide = "player"
          /\ cards[b].nameSettings.displaySide = "gm"
          /\ cards[c].nameSettings.displaySide = "both"
          /\ \A k \in {a, b, c} :
                cards[k].nameSettings.enabled /\ NonBlank(cards[k].nameSettings.name)
    /\ Len(labels) >= 4

\* C6: a card gets a label only when nameSettings.enabled is true and its name
\* has a character other than whitespace; with enabled = false, or an empty or
\* whitespace-only name, it gets none on either side whatever its displaySide.
C6_LabelOnlyWhenNamed ==
    JustPlaced =>
        LET ns == LastCard.nameSettings
        IN  /\ Len(LastLabels) > 0 => ns.enabled /\ NonBlank(ns.name)
            /\ (~ns.enabled \/ ~NonBlank(ns.name)) => Len(LastLabels) = 0
            /\ \A n \in 1..Len(labels) :
                  LET c == cards[labels[n].card + 1].nameSettings
                  IN  c.enabled /\ NonBlank(c.name)

C6_Witness ==
    /\ JustPlaced
    /\ LastCard.nameSettings.enabled
    /\ LastCard.nameSettings.name = <<0, 0, 0>>
    /\ LastCard.nameSettings.displaySide = "both"
    /\ Len(LastLabels) = 0
    /\ Len(labels) > 0

\* C7: with an empty deck a generation request does nothing: no document is
\* created, no page added, nothing rendered, drawn or saved, no error raised,
\* no notification shown, and isGenerating stays false.
C7_EmptyDeckNoOp ==
    Len(cards) = 0 =>
        /\ pdf = NoDocument
        /\ ops = <<>>
        /\ labels = <<>>
        /\ halves = NoHalves
        /\ result # "rejected"
        /\ alerts = 0
        /\ ~isGenerating
        /\ pc \in {"idle", "end", "returned"}

C7_Witness ==
    /\ Len(cards) = 0
    /\ via = "export"
    /\ pc = "end"
    /\ result = "resolved"

LastLeft == SelectSeq(OfKind(LastCardOps, "JPEG"), LAMBDA c : c.side = "gm")
LastRight == SelectSeq(OfKind(LastCardOps, "JPEG"), LAMBDA c : c.side = "player")

\* C8 as stated: the cover crop of each half has the aspect ratio of the rotated
\* target, and the rectangle a half is placed into has the width : height ratio
\* of the pixel buffer requested for it (halfWidthPx : halfHeightPx).
C8_NoDistortion ==
    JustPlaced =>
        /\ \A h \in {"normal", "rotated"} :
              halves[h].crop.srcWidth * Ratio(halves[h].widthPx, halves[h].heightPx)[1]
                  = halves[h].crop.srcHeight * Ratio(halves[h].widthPx, halves[h].heightPx)[2]
        /\ \A n \in 1..Len(LastLeft) :
              LastLeft[n].w * halves.rotated.heightPx = LastLeft[n].h * halves.rotated.widthPx
        /\ \A n \in 1..Len(LastRight) :
              LastRight[n].w * halves.normal.heightPx = LastRight[n].h * halves.normal.widthPx

\* C9 as stated: the canvas of a rendered half, whose sides are whole pixels,
\* measures exactly halfWidth * 10 by halfHeight * 10 pixels, the size requested.
C9_BufferSize ==
    \A h \in {"normal", "rotated"} :
        halves[h].st = "done" =>
            /\ halves[h].canvasWidth * 100 = getHalfWidth(cardsPerPage) * 10
            /\ halves[h].canvasHeight * 100 = getHalfHeight(cardsPerPage) * 10

\* the border inset of a layout: 1.5 mm, and 0.9 mm in the 20 layout
InsetOf(cpp) == IF cpp = 20 THEN 90 ELSE 150

\* both halves of the card placed last are inset by d on top, bottom and outer edge
HalvesInset(d) ==
    /\ Len(LastLeft) = 1
    /\ Len(LastRight) = 1
    /\ LastLeft[1].x - pos.x = d
    /\ LastLeft[1].y - pos.y = d
    /\ (pos.y + getCardHeight(cardsPerPage)) - (LastLeft[1].y + LastLeft[1].h) = d
    /\ (pos.x + getCardWidth(cardsPerPage)) - (LastRight[1].x + LastRight[1].w) = d
    /\ LastRight[1].y - pos.y = d
    /\ (pos.y + getCardHeight(cardsPerPage)) - (LastRight[1].y + LastRight[1].h) = d

GapBetweenHalves == LastRight[1].x - (LastLeft[1].x + LastLeft[1].w)

PageOfCard(idx) == idx \div cardsPerPage + 1

\* C11: cards are drawn in deck order; a new page is started exactly when
\* i mod cardsPerPage = 0 and i > 0 (so the document has floor(i / L) + 1 pages
\* while card i is in hand and no page more before the next card is taken up);
\* and every image, border, fold line and label of card i is drawn while the
\* current page is page floor(i / cardsPerPage), and lands on that page.
C11_DeckOrderAndPages ==
    /\ pc = "await" =>
          /\ pdf.pages = PageOfCard(i)
          /\ pdf.cur = PageOfCard(i)
          /\ \A n \in 1..Len(ops) : ops[n].card < i
    /\ JustPlaced =>
          /\ pdf.pages = PageOfCard(i - 1)
          /\ pdf.cur = PageOfCard(i - 1)
          /\ Len(LastCardOps) >= 5
          /\ \A n \in 1..Len(LastCardOps) : LastCardOps[n].page = PageOfCard(i - 1)
          /\ ops[Len(ops)].card = i - 1
    /\ Resolved =>
          /\ \A n \in 1..Len(ops) :
                ops[n].card >= 0 => ops[n].page = PageOfCard(ops[n].card)
          /\ \A n \in 1..(Len(ops) - 1) :
                ops[n + 1].card >= 0 =>
                    /\ ops[n].card >= 0
                    /\ ops[n].card <= ops[n + 1].card
                    /\ ops[n + 1].card <= ops[n].card + 1
          /\ { ops[n].card : n \in 1..Len(ops) } \ {-1} = 0..(Len(cards) - 1)

C11_Witness ==
    /\ JustPlaced
    /\ (i - 1) % cardsPerPage = 0
    /\ pdf.cur = 3
    /\ Len(OfKind(LastCardOps, "PNG")) = 2

\* the cell origin of the card placed last, read off what was drawn: the outer
\* border is drawn BORDER_WIDTH_MM / 2 inside the cell, the left half image
\* one inset inside it
DrawnOrigin ==
    LET outer == OfKind(LastCardOps, "outer")[1]
    IN  << outer.x - BORDER_WIDTH_MM \div 2, outer.y - BORDER_WIDTH_MM \div 2 >>

\* C12: for card index i with p = i mod cardsPerPage, the cell origin is
\* x = (p mod 2) * cardWidth, y = floor(p / 2) * cardHeight in the 20 layout
\* (cells of 105 mm x 29.7 mm), and x = 0, y = p * cardHeight in the 4 and 5
\* layouts (cells 74.25 mm and 59.4 mm high).
C12_CellOrigin ==
    JustPlaced =>
        LET p == (i - 1) % cardsPerPage
            expected ==
                CASE cardsPerPage = 20 -> << (p % 2) * 10500, (p \div 2) * 2970 >>
                  [] cardsPerPage = 5  -> << 0, p * 5940 >>
                  [] cardsPerPage = 4  -> << 0, p * 7425 >>
        IN  /\ << pos.x, pos.y >> = expected
            /\ DrawnOrigin = expected
            /\ LastLeft[1].x - InsetOf(cardsPerPage) = expected[1]
            /\ LastLeft[1].y - InsetOf(cardsPerPage) = expected[2]

C12_Witness ==
    /\ JustPlaced
    /\ cardsPerPage = 20
    /\ (i - 1) % cardsPerPage = 7
    /\ DrawnOrigin = << 10500, 8910 >>

\* the cut lines drawn on page pg, and the rows of page pg that hold a card
CutLinesOn(pg) == SelectSeq(ops, LAMBDA c : c.kind = "cut" /\ c.page = pg)
OccupiedRows(pg) == Cardinality({ cell[2] : cell \in CellsOnPage(pg) })
CountIn(cmds, x1, y1, x2, y2) ==
    Cardinality({ n \in 1..Len(cmds) :
        cmds[n].x = x1 /\ cmds[n].y = y1 /\ cmds[n].w = x2 /\ cmds[n].h = y2 })

\* C13: cut lines are drawn only once every card is placed; then every page of
\* the document, and no other page, has exactly one solid horizontal cut line
\* across the sheet at y = k * cardHeight for k = 1 .. occupiedRows - 1, in the
\* 20 layout exactly one more, vertical, at x = cardWidth down the occupied
\* rows, and no further cut line.
C13_CutLines ==
    /\ (\E n \in 1..Len(ops) : ops[n].kind = "cut") =>
          /\ i = Len(cards)
          /\ ops[Len(ops)].kind = "cut"
    /\ Resolved =>
          /\ \A n \in 1..Len(ops) :
                ops[n].kind = "cut" =>
                    /\ ops[n].page \in 1..pdf.pages
                    /\ ops[n].dash = 0
                    /\ ops[n].op = "line"
                    /\ \A k \in n..Len(ops) : ops[k].kind = "cut"
          /\ \A pg \in 1..pdf.pages :
                LET cuts == CutLinesOn(pg)
                    rows == OccupiedRows(pg)
                    h == getCardHeight(cardsPerPage)
                    w == getCardWidth(cardsPerPage)
                IN  /\ rows >= 1
                    /\ \A k \in 1..(rows - 1) :
                          CountIn(cuts, 0, k * h, 21000, k * h) = 1
                    /\ cardsPerPage = 20 => CountIn(cuts, w, 0, w, rows * h) = 1
                    /\ Len(cuts) = (rows - 1) + (IF cardsPerPage = 20 THEN 1 ELSE 0)

C13_Witness ==
    /\ Resolved
    /\ cardsPerPage = 20
    /\ pdf.pages = 2
    /\ OccupiedRows(1) = 10
    /\ OccupiedRows(2) = 2
    /\ Len(CutLinesOn(2)) = 2
    /\ Len(CutLinesOn(1)) = 10

\* C14: whichever of the two renders of a card settles first, the fragment
\* rotated +90 degrees is placed on the left half and the fragment rotated -90
\* degrees on the right half, and nothing of a card is placed while one of
\* its renders is still outstanding.
C14_HalvesByRole ==
    /\ pc = "await" => \A n \in 1..Len(ops) : ops[n].card # i
    /\ JustPlaced =>
          /\ Len(halves.settled) = 2
          /\ halves.normal.st = "done"
          /\ halves.rotated.st = "done"
          /\ Len(LastLeft) = 1
          /\ Len(LastRight) = 1
          /\ LastLeft[1].rot = 90
          /\ OnLeftHalf(LastLeft[1])
          /\ LastRight[1].rot = -90
          /\ OnRightHalf(LastRight[1])

C14_Witness ==
    /\ JustPlaced
    /\ halves.settled = << "rotated", "normal" >>
    /\ LastLeft[1].rot = 90
    /\ LastRight[1].rot = -90

\* the far corner of the cell an outer border was drawn for
FarCorner(c) ==
    << c.x - BORDER_WIDTH_MM \div 2 + getCardWidth(cardsPerPage),
       c.y - BORDER_WIDTH_MM \div 2 + getCardHeight(cardsPerPage) >>

\* C15: in every layout the cells tile the sheet exactly: rowsPerPage *
\* cardHeight = 297 mm and columnsPerPage * cardWidth = 210 mm, with 1 column
\* and L rows for L in {4, 5} and 2 columns by 10 rows for L = 20;
\* cardHeight(20) = cardHeight(5) / 2, halfWidth = cardWidth / 2 and
\* halfHeight = cardHeight; and a full page of drawn cards fills the grid, its
\* last cell ending at the sheet's corner (210 mm, 297 mm).
C15_CellsTileThePage ==
    LET L == cardsPerPage
    IN  /\ rowsPerPage(L) * getCardHeight(L) = 29700
        /\ columnsPerPage(L) * getCardWidth(L) = 21000
        /\ rowsPerPage(L) * columnsPerPage(L) = L
        /\ L \in {4, 5} => columnsPerPage(L) = 1 /\ rowsPerPage(L) = L
        /\ L = 20 => columnsPerPage(L) = 2 /\ rowsPerPage(L) = 10
        /\ 2 * getCardHeight(20) = getCardHeight(5)
        /\ 2 * getHalfWidth(L) = getCardWidth(L)
        /\ getHalfHeight(L) = getCardHeight(L)
        /\ (Resolved /\ Len(cards) >= L) =>
              /\ CellsOnPage(1) =
                    (0..(columnsPerPage(L) - 1)) \X (0..(rowsPerPage(L) - 1))
              /\ \E n \in 1..Len(ops) :
                    /\ ops[n].kind = "outer"
                    /\ ops[n].card = L - 1
                    /\ FarCorner(ops[n]) = << 21000, 29700 >>

C15_Witness ==
    /\ Resolved
    /\ cardsPerPage = 20
    /\ CardsOnPage(1) = 20
    /\ Cardinality(CellsOnPage(1)) = 20

\* the render behind a label command of the card placed last
LabelRender(c) ==
    LET n == CHOOSE k \in 1..Len(labels) :
                 labels[k].card = i - 1 /\ labels[k].side = c.side
    IN  labels[n]

BlockWidthRef(blockSize) ==
    CASE blockSize = "small" -> 700
      [] blockSize = "medium" -> 1000
      [] blockSize = "large" -> 1400

\* the label c is placed as the claim says, against the half images placed
LabelPlaced(c) ==
    /\ c.side = "gm" =>
          /\ LabelRender(c).rotationDeg = 90
          /\ c.x = LastLeft[1].x
    /\ c.side = "player" =>
          /\ LabelRender(c).rotationDeg = -90
          /\ c.x + c.w = LastRight[1].x + LastRight[1].w
    /\ c.w = BlockWidthRef(LastCard.nameSettings.blockSize)
    /\ c.y = LastLeft[1].y
    /\ c.h = LastLeft[1].h

\* C16 as stated: in every layout a GM-side label is rotated +90 degrees with
\* its left edge at the inner left edge of the left half, a player-side label
\* is rotated -90 degrees with its right edge at the inner right edge of the
\* right half, and each label is 7, 10 or 14 mm wide by block size and has the
\* vertical extent of the placed half images.
C16_LabelPlacement ==
    JustPlaced => \A n \in 1..Len(LastLabels) : LabelPlaced(LastLabels[n])

LastFolds == OfKind(LastCardOps, "fold")

\* C17: for every card exactly one dashed fold line is drawn, vertical, at the
\* cell's horizontal midpoint x + halfWidth (105 mm in the single-column
\* layouts), from y + 1.5 mm to y + cardHeight - 1.5 mm; it lies strictly
\* inside the gap between the two placed half images, which are of equal size
\* and mirror images of each other about it.
C17_FoldLine ==
    JustPlaced =>
        /\ Len(LastFolds) = 1
        /\ LET f == LastFolds[1]
               l == LastLeft[1]
               r == LastRight[1]
           IN  /\ f.op = "line"
               /\ f.dash > 0
               /\ f.x = f.w
               /\ f.x = DrawnOrigin[1] + getCardWidth(cardsPerPage) \div 2
               /\ cardsPerPage \in {4, 5} => f.x = 10500
               /\ f.y = DrawnOrigin[2] + 150
               /\ f.h = DrawnOrigin[2] + getCardHeight(cardsPerPage) - 150
               /\ l.x + l.w < f.x
               /\ f.x < r.x
               /\ l.w = r.w
               /\ l.h = r.h
               /\ l.y = r.y
               /\ f.x - (l.x + l.w) = r.x - f.x
               /\ f.x - l.x = (r.x + r.w) - f.x

C17_Witness ==
    /\ JustPlaced
    /\ cardsPerPage = 5
    /\ i = 3
    /\ Len(LastFolds) = 1
    /\ LastFolds[1].x = 10500
    /\ LastFolds[1].y = 2 * 5940 + 150
    /\ LastFolds[1].dash = FOLD_LINE_DASH_MM

\* the cards of the deck that the step removes from it
RemovedByStep == { k \in 1..Len(cards) : \A j \in 1..Len(cards') : cards'[j].id # cards[k].id }

\* C18: every step that removes cards from the deck (the remove button on a
\* card, Remove in the options menu, Clear All) leaves the image URL of each
\* card it removes revoked.
C18_RemovedAreRevoked ==
    [][ \A k \in RemovedByStep : cards[k].imageUrl \in broken' ]_vars

C18_Witness ==
    /\ Len(cards) = 1
    /\ nextId = 4
    /\ Cardinality(broken) = 2
    /\ cards[1].imageUrl \notin broken

InFlight == pc \in {"called", "loop", "await", "cut", "end"}
Rejections == (IF prev.result = "rejected" THEN 1 ELSE 0)
              + (IF pc = "returned" /\ result = "rejected" THEN 1 ELSE 0)

\* C19: isGenerating is true only while a pass requested through the App is in
\* flight, and is true throughout it; once handleGeneratePDF has returned,
\* whether generatePDF resolved or rejected, isGenerating is false, so the
\* Generate button is enabled and a second request goes through; and each
\* rejected pass has produced exactly one failure notification, a resolved
\* pass none.
C19_IsGeneratingResets ==
    /\ isGenerating <=> (via = "App" /\ InFlight)
    /\ pc = "returned" => ~isGenerating
    /\ (pc = "called" /\ prev.passes = 1) => isGenerating /\ Len(cards) > 0
    /\ alerts = (IF via = "App" THEN Rejections ELSE 0)

C19_Witness ==
    /\ via = "App"
    /\ pc = "returned"
    /\ prev.passes = 1
    /\ prev.result = "rejected"
    /\ result = "rejected"
    /\ alerts = 2
    /\ ~isGenerating

\* C20: a second generation pass with the same deck and layout ends as the
\* first did, with the same number of pages and the same commands in the same
\* order (page of each, image and label rectangles, borders, fold and cut
\* lines) and the same label renders, in whatever order the half renders of
\* either pass settle.
C20_SamePlacementTwice ==
    (prev.passes = 1 /\ Finished) =>
        /\ result = prev.result
        /\ pdf.pages = prev.pages
        /\ ops = prev.ops
        /\ labels = prev.labels

C20_Witness ==
    /\ prev.passes = 1
    /\ Resolved
    /\ pdf.pages = 2
    /\ Len(ops) > 20
    /\ ops = prev.ops
    /\ prev.settled = << "normal", "rotated" >>
    /\ halves.settled = << "rotated", "normal" >>

\* C21 as stated: after any sequence of upload, duplicate, move, rename, remove
\* and clear-all operations, no card of the deck has a revoked image URL.
C21_DeckImagesLive ==
    \A k \in 1..Len(cards) : cards[k].imageUrl \notin broken

\* C23 as stated: after any sequence of select, close, upload, duplicate, move,
\* remove and clear-all operations, selectedCardId is null or the id of a card
\* of the deck.
C23_SelectionInDeck ==
    selectedCardId = 0 \/ \E k \in 1..Len(cards) : cards[k].id = selectedCardId

\* the ids of a deck, in order, and the deck without the card of an id
IdsOf(deck) == [k \in 1..Len(deck) |-> deck[k].id]
Others(deck, id) == SelectSeq(deck, LAMBDA card : card.id # id)
IsNeighbourSwap(before, after, a) ==
    /\ a \in 1..(Len(before) - 1)
    /\ after = [before EXCEPT ![a] = before[a + 1], ![a + 1] = before[a]]

\* C26: on every deck the App reaches and for every id, known or not, move-up
\* and move-down keep the deck's cards and length and the relative order of
\* all other cards; they leave the deck unchanged for the first card moved up,
\* the last card moved down and an id not in the deck, and otherwise swap the
\* card with the neighbour before (after) it; move-up then move-down of a card
\* that is not first gives the deck back; and the two handlers change the deck
\* to exactly this for the selected card.
C26_MoveSwapsNeighbours ==
    [][ /\ \A id \in 0..(MaxIds + 1) :
            LET index == findIndex(cards, id)
                up == moveCardUp(cards, id)
                down == moveCardDown(cards, id)
            IN  /\ Len(up) = Len(cards)
                /\ Len(down) = Len(cards)
                /\ { up[k] : k \in 1..Len(up) } = { cards[k] : k \in 1..Len(cards) }
                /\ { down[k] : k \in 1..Len(down) } = { cards[k] : k \in 1..Len(cards) }
                /\ Others(up, id) = Others(cards, id)
                /\ Others(down, id) = Others(cards, id)
                /\ index <= 1 => up = cards
                /\ (index = 0 \/ index = Len(cards)) => down = cards
                /\ index > 1 => IsNeighbourSwap(cards, up, index - 1)
                /\ (index > 0 /\ index < Len(cards)) => IsNeighbourSwap(cards, down, index)
                /\ index > 1 => moveCardDown(up, id) = cards
        /\ handleMoveCardUp => cards' = moveCardUp(cards, selectedCardId)
        /\ handleMoveCardDown => cards' = moveCardDown(cards, selectedCardId)
        /\ (handleMoveCardUp \/ handleMoveCardDown) =>
              \/ cards' = cards
              \/ \E a \in 1..(Len(cards) - 1) : IsNeighbourSwap(cards, cards', a)
      ]_vars

C26_Witness ==
    /\ Len(cards) = 3
    /\ IdsOf(cards) = << 2, 3, 1 >>
    /\ selectedCardId = 3
    /\ moveCardUp(cards, 3) # cards
    /\ moveCardDown(cards, 3) # cards

\* the image the renders in halves are of: that of the card in hand while the
\* loop waits or has been rejected, that of the card placed last afterwards
RenderedImage == cards[IF pc = "await" \/ result = "rejected" THEN i + 1 ELSE i].img

\* C24: for every source image and every target the layouts ask for, the
\* cover-crop rectangle is centred in the source, lies within it, keeps the
\* full height when imageAspect > targetAspect and the full width otherwise,
\* and has width : height = heightPx : widthPx of the target.
C24_CoverCrop ==
    \A h \in {"normal", "rotated"} :
        halves[h].st = "done" =>
            LET c == halves[h].crop
                imgW == RenderedImage[1] * c.den
                imgH == RenderedImage[2] * c.den
                t == Ratio(halves[h].widthPx, halves[h].heightPx)
                wider == RenderedImage[1] * t[1] > RenderedImage[2] * t[2]
            IN  /\ c.den > 0
                /\ c.srcWidth > 0
                /\ c.srcHeight > 0
                /\ 0 <= c.srcX
                /\ c.srcX + c.srcWidth <= imgW
                /\ 0 <= c.srcY
                /\ c.srcY + c.srcHeight <= imgH
                /\ 2 * c.srcX + c.srcWidth = imgW
                /\ 2 * c.srcY + c.srcHeight = imgH
                /\ wider => c.srcHeight = imgH /\ c.srcY = 0 /\ c.srcX > 0
                /\ ~wider => c.srcWidth = imgW /\ c.srcX = 0
                /\ c.srcWidth * t[1] = c.srcHeight * t[2]

C24_Witness ==
    /\ halves.normal.st = "done"
    /\ halves.rotated.st = "done"
    /\ cards[1].img = << 6, 5 >>
    /\ cardsPerPage = 4
    /\ halves.rotated.crop.srcX > 0
    /\ halves.normal.crop.srcY = 0

\* the cell of a card, from its outer border: page, left, top, right, bottom
CellRect(c) ==
    [page |-> c.page,
     left |-> c.x - BORDER_WIDTH_MM \div 2,
     top |-> c.y - BORDER_WIDTH_MM \div 2,
     right |-> FarCorner(c)[1],
     bottom |-> FarCorner(c)[2]]

Overlap(a, b) ==
    /\ a.page = b.page
    /\ a.left < b.right
    /\ b.left < a.right
    /\ a.top < b.bottom
    /\ b.top < a.bottom

Outers == OfKind(ops, "outer")

\* C25: the cell of every card lies within the 210 mm x 297 mm page, and the
\* cell of the card placed last neither overlaps the cell of a card placed
\* before it on the same page nor has the (page, origin) of one; so at every
\* moment the cells drawn are pairwise non-overlapping, in every layout and
\* for every deck length.
C25_CellsDisjoint ==
    JustPlaced =>
        LET outers == Outers
            last == CellRect(outers[Len(outers)])
        IN  /\ Len(outers) = i
            /\ outers[i].card = i - 1
            /\ 0 <= last.left
            /\ last.left < last.right
            /\ last.right <= 21000
            /\ 0 <= last.top
            /\ last.top < last.bottom
            /\ last.bottom <= 29700
            /\ last.page \in 1..pdf.pages
            /\ \A n \in 1..(i - 1) :
                  /\ ~Overlap(CellRect(outers[n]), last)
                  /\ << outers[n].page, outers[n].x, outers[n].y >>
                        # << outers[i].page, outers[i].x, outers[i].y >>

C25_Witness ==
    /\ JustPlaced
    /\ cardsPerPage = 20
    /\ i = 23
    /\ CellRect(Outers[23]).page = 2
    /\ CellRect(Outers[23]).left = 0
    /\ CellRect(Outers[23]).top = 2970
    /\ CellRect(Outers[3]).top = 2970

\* the words of some lines in order, and the non-empty words of a sequence
RECURSIVE Flatten(_)
Flatten(lines) == IF lines = <<>> THEN <<>> ELSE Head(lines) \o Flatten(Tail(lines))
NonEmptyWords(ws) == SelectSeq(ws, LAMBDA w : w > 0)

\* the renders of the labels of the card placed last
LastRenders == SelectSeq(labels, LAMBDA l : l.card = i - 1)

\* C27: the lines a label's text was wrapped into by wrapText (at the font
\* size ctx.font was last set to, against maxWidth = widthPx - 2 * padding)
\* hold every non-empty word of the name exactly once and in order; a line of
\* more than one word measures at most maxWidth; each line ends where adding
\* the next line's first word would have exceeded maxWidth; and no line is
\* empty.
C27_GreedyWrap ==
    JustPlaced =>
        \A n \in 1..Len(LastRenders) :
            LET l == LastRenders[n]
                ns == LastCard.nameSettings
                maxWidth == l.widthPx - 2 * 1600
                lines == l.lines
            IN  /\ lines = wrapText(ns.name, ns.font, l.font, maxWidth)
                /\ NonEmptyWords(Flatten(lines)) = NonEmptyWords(ns.name)
                /\ Len(lines) >= 1
                /\ \A k \in 1..Len(lines) :
                      /\ Chars(lines[k]) > 0
                      /\ Head(lines[k]) > 0
                      /\ Len(lines[k]) > 1 =>
                            measureText(lines[k], ns.font, l.font) <= maxWidth
                /\ \A k \in 1..(Len(lines) - 1) :
                      measureText(Append(lines[k], Head(lines[k + 1])), ns.font, l.font)
                          > maxWidth

C27_Witness ==
    /\ JustPlaced
    /\ LastCard.nameSettings.name = << 3, 0, 12 >>
    /\ Len(LastRenders) = 2
    /\ LastRenders[1].lines = << <<3, 0>>, <<12>> >>

\* card k (1-based) of the snapshot has still to be loaded by the pass
StillToLoad(k) ==
    \/ k > i + 1
    \/ /\ k = i + 1
       /\ \/ pc \in {"called", "loop"}
          \/ pc = "await" /\ \E h \in {"normal", "rotated"} : halves[h].st = "loading"

\* C22 as stated: while a generation pass is in flight, no image URL of a card
\* of the snapshot that the pass has still to load is revoked.
C22_NoRevocationInFlight ==
    (isGenerating /\ pc \in {"called", "loop", "await"}) =>
        \A k \in 1..Len(snapshot) :
            StillToLoad(k) => snapshot[k].imageUrl \notin broken

====
